---- MODULE Spec2Model ----
(***************************************************************************)
(* A model of the TodoMVC application of serg-io/todo: the <todo-storage>  *)
(* adapter (localStorage blob + live cache), the <todo-app> controller,    *)
(* the todo-list / todo-item views and the promise microtask queue that    *)
(* links them.                                                             *)
(***************************************************************************)
EXTENDS Integers, Sequences, FiniteSets, TLC

VARIABLES
    heap,       \* JS objects (todo items) by reference: ref -> record
    liveTodos,  \* the closure variable `liveTodos` of TodoStorage.initialize
    store,      \* window.localStorage item `name`
    now,        \* the reading of Date.now()
    rows,       \* the <li is="todo-item"> children of the list's <ul>
    rendered,   \* whether the once-only "storage-connected" listener has run
    queue,      \* the promise reaction (microtask) queue, FIFO
    log,        \* trace of the effects of the current task and its microtasks
    lastCount   \* the detail of the last "count-updated" event dispatched, if any

vars == <<heap, liveTodos, store, now, rows, rendered, queue, log, lastCount>>

(* ------------------------------ bounds --------------------------------- *)

MaxTodos == 2
MaxClock == 2

\* The largest number whose conversion to digits and back is checked.
MaxId == 120

\* Titles a user can type or a caller can pass, as sequences of characters.
TitleSamples == { <<>>, <<" ">>, <<"a">>, <<" ", "b">> }

\* Titles typed into the text field of a row, or passed to updateTodo.
EditSamples == { <<>>, <<"a">> }

(* ------------------------------ values --------------------------------- *)

Keys == <<"title", "id", "completed">>

Range(f) == { f[x] : x \in DOMAIN f }

Max(S) == IF S = {} THEN 0 ELSE CHOOSE m \in S : \A x \in S : x <= m

\* String.prototype.trim on a sequence of characters.
RECURSIVE TrimStart(_)
TrimStart(t) ==
    IF t = <<>> THEN t
    ELSE IF Head(t) = " " THEN TrimStart(Tail(t)) ELSE t

RECURSIVE TrimEnd(_)
TrimEnd(t) ==
    IF t = <<>> THEN t
    ELSE IF t[Len(t)] = " " THEN TrimEnd(SubSeq(t, 1, Len(t) - 1)) ELSE t

Trim(t) == TrimEnd(TrimStart(t))

\* A variant of the test that forgets trim().
EmptyTitleUntrimmed(title) == Len(title) = 0

\* The test of addTodo: typeof title !== 'string' || title.trim().length === 0
EmptyTitle(title) == Len(Trim(title)) = 0

(* ------------------------------- JSON ---------------------------------- *)

DigitChars == <<"0", "1", "2", "3", "4", "5", "6", "7", "8", "9">>

RECURSIVE NumberToString(_)
NumberToString(n) ==
    IF n < 10 THEN <<DigitChars[n + 1]>>
    ELSE NumberToString(n \div 10) \o <<DigitChars[(n % 10) + 1]>>

DigitValue(c) == CHOOSE d \in 0..9 : DigitChars[d + 1] = c

RECURSIVE StringToNumber(_)
StringToNumber(ds) ==
    IF Len(ds) = 0 THEN 0
    ELSE 10 * StringToNumber(SubSeq(ds, 1, Len(ds) - 1)) + DigitValue(ds[Len(ds)])

\* A JSON value is <<tag, characters>>.
StringifyValue(k, v) ==
    CASE k = "title" -> <<"str", v>>
      [] k = "id" -> <<"num", NumberToString(v)>>
      [] k = "completed" -> <<"lit", <<IF v THEN "true" ELSE "false">> >>

\* A variant of the parser that reads every literal as true.
ParseValueTruthy(jv) ==
    CASE jv[1] = "str" -> jv[2]
      [] jv[1] = "num" -> StringToNumber(jv[2])
      [] jv[1] = "lit" -> TRUE

ParseValue(jv) ==
    CASE jv[1] = "str" -> jv[2]
      [] jv[1] = "num" -> StringToNumber(jv[2])
      [] jv[1] = "lit" -> (jv[2] = <<"true">>)

\* JSON.stringify of an array of todo objects: members in property order.
JSONStringify(todos) ==
    [i \in 1..Len(todos) |->
        [j \in 1..Len(Keys) |-> <<Keys[j], StringifyValue(Keys[j], todos[i][Keys[j]])>>]]

Member(obj, k) == obj[CHOOSE j \in 1..Len(obj) : obj[j][1] = k][2]

JSONParse(text) ==
    [i \in 1..Len(text) |->
        [title |-> ParseValue(Member(text[i], "title")),
         id |-> ParseValue(Member(text[i], "id")),
         completed |-> ParseValue(Member(text[i], "completed"))]]

\* localStorage.getItem( name ) || '[]'
StoredText(st) == IF st.has THEN st.text ELSE <<>>

(* --------------------------- program state ----------------------------- *)
\* The operations below are functions of a record `s` of the mutable state
\* (every variable but the clock), so that a handler can chain them.

Deref(s, refs) == [i \in 1..Len(refs) |-> s.heap[refs[i]]]

\* What getLocalStorage() would return, by value.
Collection(s) ==
    IF s.liveTodos.defined THEN Deref(s, s.liveTodos.arr)
    ELSE JSONParse(StoredText(s.store))

\* The collection as persisted in the store.
Persisted(s) == JSONParse(StoredText(s.store))

\* The adapter's data before/after a call, for the trace.
Snap(s) ==
    [defined |-> s.liveTodos.defined,
     live |-> IF s.liveTodos.defined THEN Deref(s, s.liveTodos.arr) ELSE <<>>,
     store |-> s.store]

Emit(s, entry) == [s EXCEPT !.log = Append(@, entry)]

\* A variant of the queue that runs the newest reaction first.
EnqueueFront(s, job) == [s EXCEPT !.queue = <<job>> \o @]

\* A reaction is queued behind the pending ones.
Enqueue(s, job) == [s EXCEPT !.queue = Append(@, job)]

\* Fresh objects for the given records; the new references in order.
Alloc(s, recs) ==
    LET base == Max(DOMAIN s.heap)
        refs == [i \in 1..Len(recs) |-> base + i]
    IN [s |-> [s EXCEPT !.heap = [r \in DOMAIN s.heap \cup Range(refs) |->
                                     IF r \in DOMAIN s.heap THEN s.heap[r]
                                     ELSE recs[r - base]]],
        refs |-> refs]

(* ------------------------------ list view ------------------------------ *)

\* CustomElement.byId on the list: the first row with that id, 0 for null.
ById(rws, id) ==
    IF \E i \in 1..Len(rws) : rws[i].id = id
    THEN CHOOSE i \in 1..Len(rws) :
            rws[i].id = id /\ \A j \in 1..(i - 1) : rws[j].id # id
    ELSE 0

\* new TodoItem() with id, title and completed set, then connected: the
\* template is infused with the attributes (text field and checkbox).
NewRow(item) ==
    [id |-> item.id, title |-> item.title, completed |-> item.completed,
     editing |-> FALSE, input |-> item.title, checked |-> item.completed]

\* The list's <ul> gets new children or attributes: the change is recorded in
\* the trace with the rows before and after it.
Viewed(s, op, id, rws) ==
    Emit([s EXCEPT !.rows = rws],
         [t |-> "view", op |-> op, id |-> id, pre |-> s.rows, post |-> rws])

\* TodoList.addTodo
ListAddTodo(s, item) == Viewed(s, "addTodo", item.id, Append(s.rows, NewRow(item)))

\* TodoList.render
RECURSIVE RenderFrom(_, _, _)
RenderFrom(s, todos, i) ==
    IF i > Len(todos) THEN s ELSE RenderFrom(ListAddTodo(s, todos[i]), todos, i + 1)

ListRender(s, todos) == RenderFrom([s EXCEPT !.rows = <<>>], todos, 1)

\* TodoList.removeTodo: byId( id ).remove(); a TypeError when byId is null,
\* which the event dispatch reports and does not propagate.
ListRemoveTodo(s, id) ==
    LET i == ById(s.rows, id)
    IN IF i = 0 THEN Emit(s, [t |-> "uncaught", in |-> "list.removeTodo"])
       ELSE Viewed(s, "removeTodo", id,
                   SubSeq(s.rows, 1, i - 1) \o SubSeq(s.rows, i + 1, Len(s.rows)))

\* TodoItem: the title setter always calls setAttribute, so the text field is
\* infused again; the completed setter calls setAttribute for a truthy value
\* and removeAttribute otherwise, which changes nothing (and infuses nothing)
\* when the attribute is absent.
SetRow(row, update) ==
    [row EXCEPT !.title = update.title,
                !.input = update.title,
                !.completed = update.completed,
                !.checked = IF update.completed THEN TRUE
                            ELSE IF row.completed THEN FALSE ELSE row.checked]

\* A variant that changes the first row of the list, whatever its id.
ListUpdateFirstRow(s, update) ==
    IF Len(s.rows) = 0 THEN Emit(s, [t |-> "uncaught", in |-> "list.updateTodo"])
    ELSE Viewed(s, "updateTodo", update.id, [s.rows EXCEPT ![1] = SetRow(@, update)])

\* TodoList.updateTodo
ListUpdateTodo(s, update) ==
    LET i == ById(s.rows, update.id)
    IN IF i = 0 THEN Emit(s, [t |-> "uncaught", in |-> "list.updateTodo"])
       ELSE Viewed(s, "updateTodo", update.id, [s.rows EXCEPT ![i] = SetRow(@, update)])

(* --------------------- events and the controller ----------------------- *)

\* A variant of the listener that is not removed after its first call.
RenderAlways(s, todos) == ListRender([s EXCEPT !.rendered = TRUE], todos)

\* The "storage-connected" listener, registered with { once: true }: _render
\* runs for the first event only.
RenderOnce(s, todos) ==
    IF s.rendered THEN s ELSE ListRender([s EXCEPT !.rendered = TRUE], todos)

\* CustomElement.dispatch of an event of <todo-storage>, and the listener
\* TodoApp.initialize registered for it (bubbling, synchronous).
Dispatch(s, name, detail) ==
    LET s1 == Emit(s, [t |-> "event", name |-> name, detail |-> detail, snap |-> Snap(s)])
    IN CASE name = "todo-added" -> ListAddTodo(s1, detail)
         [] name = "todo-removed" -> ListRemoveTodo(s1, detail.id)
         [] name = "todo-updated" -> ListUpdateTodo(s1, detail)
         [] name = "storage-connected" -> RenderOnce(s1, detail)
         [] name = "count-updated" -> [s1 EXCEPT !.lastCount = <<detail>>]
         [] OTHER -> s1

(* --------------------------- storage adapter --------------------------- *)

\* getLocalStorage: the live array, or a freshly parsed copy.
GetLocalStorage(s) ==
    IF s.liveTodos.defined THEN [s |-> s, refs |-> s.liveTodos.arr]
    ELSE Alloc(s, JSONParse(StoredText(s.store)))

\* A variant that assigns liveTodos and writes nothing.
SetLiveTodosOnly(s, refs) ==
    LET s1 == [s EXCEPT !.liveTodos = [defined |-> TRUE, arr |-> refs]]
    IN Emit(s1, [t |-> "setItem", snap |-> Snap(s1)])

\* setLocalStorage: localStorage.setItem( name, JSON.stringify( liveTodos = todos ) )
SetLocalStorage(s, refs) ==
    LET s1 == [s EXCEPT !.liveTodos = [defined |-> TRUE, arr |-> refs],
                        !.store = [has |-> TRUE, text |-> JSONStringify(Deref(s, refs))]]
    IN Emit(s1, [t |-> "setItem", snap |-> Snap(s1)])

\* A variant of the filter callback that accepts a todo as soon as one key of
\* the query is equal.
MatchesAny(todo, query) == \E k \in DOMAIN query : query[k] = todo[k]

\* The filter callback of find: every key of the query must be strictly equal.
Matches(todo, query) == \A k \in DOMAIN query : query[k] = todo[k]

\* TodoStorage.find, up to the array handed to Promise.resolve.
Find(s, query) ==
    LET g == GetLocalStorage(s)
        refs == SelectSeq(g.refs, LAMBDA r : Matches(g.s.heap[r], query))
    IN [s |-> Emit(g.s, [t |-> "find", query |-> query, pre |-> Snap(s),
                         val |-> Deref(g.s, refs), post |-> Snap(g.s)]),
        refs |-> refs]

\* TodoStorage.count, its synchronous part: find() is called in the promise
\* executor; the scan runs later, as a reaction of find's promise.
Count(s, then) ==
    LET f == Find(s, <<>>)
    IN Enqueue(Emit(f.s, [t |-> "countCall"]),
               [k |-> "count", refs |-> f.refs, then |-> then])

\* A variant that counts and dispatches nothing.
CountWithoutDispatch(s) == Count(s, "caller")

\* TodoStorage.dispatchCountUpdated
DispatchCountUpdated(s) == Count(s, "dispatch")

\* A variant of the scan that counts every item as completed.
CountDetailUnfiltered(todos) ==
    [total |-> Len(todos), completed |-> Len(todos), active |-> 0]

\* The scan of count()'s callback over the array find resolved with.
CountDetail(todos) ==
    LET total == Len(todos)
        completed == Cardinality({ i \in 1..Len(todos) : todos[i].completed })
    IN [total |-> total, completed |-> completed, active |-> total - completed]

\* A variant that also resets the completed flag the update does not name.
MergeResetting(item, update) ==
    [k \in DOMAIN item \cup DOMAIN update |->
        IF k \in DOMAIN update THEN update[k]
        ELSE IF k = "completed" THEN FALSE ELSE item[k]]

\* item[ k ] = update[ k ] for every k in update
Merge(item, update) ==
    [k \in DOMAIN item \cup DOMAIN update |->
        IF k \in DOMAIN update THEN update[k] ELSE item[k]]

\* A variant that assigns item before comparing the id, so that an id nobody
\* has leaves the last todo visited in item.
IndexOfIdOrLast(todos, id) ==
    IF \E i \in 1..Len(todos) : todos[i].id = id
    THEN CHOOSE i \in 1..Len(todos) :
            todos[i].id = id /\ \A j \in 1..(i - 1) : todos[j].id # id
    ELSE Len(todos)

\* The index of the first todo with the given id, 0 if there is none.
IndexOfId(todos, id) ==
    IF \E i \in 1..Len(todos) : todos[i].id = id
    THEN CHOOSE i \in 1..Len(todos) :
            todos[i].id = id /\ \A j \in 1..(i - 1) : todos[j].id # id
    ELSE 0

Return(s, op, res, val) ==
    Emit(s, [t |-> "return", op |-> op, res |-> res, val |-> val, post |-> Snap(s)])

\* TodoStorage.updateTodo
UpdateTodo(s, update) ==
    LET g == GetLocalStorage(s)
        s1 == Emit(g.s, [t |-> "call", op |-> "updateTodo", arg |-> update, pre |-> Snap(s)])
        i == IndexOfId(Deref(s1, g.refs), update.id)
    IN IF i = 0 THEN Return(s1, "updateTodo", "rejected", update)
       ELSE LET r == g.refs[i]
                s2 == [s1 EXCEPT !.heap[r] = Merge(@, update)]
                s3 == SetLocalStorage(s2, g.refs)
                s4 == Dispatch(s3, "todo-updated", s3.heap[r])
                s5 == DispatchCountUpdated(s4)
            IN Return(s5, "updateTodo", "resolved", s5.heap[r])

\* The object literal of addTodo: { title, id: Date.now(), completed: false }
NewItem(title, clock) == [title |-> title, id |-> clock, completed |-> FALSE]

\* A variant that uses unshift for push.
PushFront(refs, r) == <<r>> \o refs

\* todos.push( item )
Push(refs, r) == Append(refs, r)

\* TodoStorage.addTodo
AddTodo(s, title, clock) ==
    LET item == NewItem(title, clock)
        g == GetLocalStorage(s)
        s1 == Emit(g.s, [t |-> "call", op |-> "addTodo", arg |-> title, pre |-> Snap(s)])
    IN IF EmptyTitle(title) THEN Return(s1, "addTodo", "throw", title)
       ELSE LET a == Alloc(s1, <<item>>)
                s2 == SetLocalStorage(a.s, Push(g.refs, a.refs[1]))
                s3 == Dispatch(s2, "todo-added", item)
                s4 == DispatchCountUpdated(s3)
            IN Return(s4, "addTodo", "resolved", item)

\* A variant that splices at findIndex, which is -1 (the last element) for an
\* id nobody has.
RemoveSplice(s, refs, id) ==
    IF \E i \in 1..Len(refs) : s.heap[refs[i]].id = id
    THEN SelectSeq(refs, LAMBDA r : s.heap[r].id # id)
    ELSE SubSeq(refs, 1, Len(refs) - 1)

\* The filter of removeTodo: todo => todo.id !== id
RemoveFilter(s, refs, id) == SelectSeq(refs, LAMBDA r : s.heap[r].id # id)

\* TodoStorage.removeTodo
RemoveTodo(s, id) ==
    LET g == GetLocalStorage(s)
        s1 == Emit(g.s, [t |-> "call", op |-> "removeTodo", arg |-> id, pre |-> Snap(s)])
        todos == RemoveFilter(s1, g.refs, id)
        s2 == SetLocalStorage(s1, todos)
        s3 == Dispatch(s2, "todo-removed", [id |-> id])
        s4 == DispatchCountUpdated(s3)
    IN Return(s4, "removeTodo", "resolved", Deref(s4, todos))

\* TodoStorage.connectedCallback
StorageConnected(s) ==
    LET s0 == Emit(s, [t |-> "connected", pre |-> Snap(s), rendered |-> s.rendered,
                       rows |-> s.rows])
        f == Find(s0, <<>>)
    IN DispatchCountUpdated(Enqueue(f.s, [k |-> "connected", refs |-> f.refs]))

(* --------------------------- the controller ---------------------------- *)

\* The listeners of TodoApp.initialize for the intent events of the views.
\* toggle-all and clear-completed only call find(); their loops run as
\* reactions of find's promise.
Intent(s, name, detail, clock) ==
    LET s1 == Emit(s, [t |-> "event", name |-> name, detail |-> detail, snap |-> Snap(s)])
    IN CASE name = "add-todo" -> AddTodo(s1, detail.title, clock)
         [] name = "remove-todo" -> RemoveTodo(s1, detail.id)
         [] name = "update-todo" -> UpdateTodo(s1, detail)
         [] name = "toggle-all" ->
                LET f == Find(s1, [completed |-> ~detail.completed])
                IN Enqueue(f.s, [k |-> "toggleAll", refs |-> f.refs,
                                 completed |-> detail.completed])
         [] name = "clear-completed" ->
                LET f == Find(s1, [completed |-> TRUE])
                IN Enqueue(f.s, [k |-> "clearCompleted", refs |-> f.refs])

\* The loop of TodoApp.toggleAll over the items find resolved with.
RECURSIVE ToggleAllFrom(_, _, _, _)
ToggleAllFrom(s, refs, i, completed) ==
    IF i > Len(refs) THEN s
    ELSE LET r == refs[i]
             s0 == [s EXCEPT !.heap[r].completed = completed]
             s1 == Emit(s0, [t |-> "assign", field |-> "completed",
                             live |-> s.liveTodos.defined /\ r \in Range(s.liveTodos.arr),
                             pre |-> Snap(s), post |-> Snap(s0)])
         IN ToggleAllFrom(UpdateTodo(s1, s1.heap[r]), refs, i + 1, completed)

\* The loop of TodoApp.clearCompleted over the items find resolved with.
RECURSIVE ClearCompletedFrom(_, _, _)
ClearCompletedFrom(s, refs, i) ==
    IF i > Len(refs) THEN s
    ELSE ClearCompletedFrom(RemoveTodo(s, s.heap[refs[i]].id), refs, i + 1)

(* ------------------------------ the state ------------------------------ *)

State ==
    [heap |-> heap, liveTodos |-> liveTodos, store |-> store, rows |-> rows,
     rendered |-> rendered, queue |-> queue, log |-> log, lastCount |-> lastCount]

\* A new task (a user event or a call from outside) starts a new trace.
Task == [State EXCEPT !.log = <<>>]

\* Objects no pending reaction can reach are dropped once the queue is empty,
\* and the live ones are named by their position.
Collected(s) ==
    IF s.queue # <<>> THEN s
    ELSE IF s.liveTodos.defined
    THEN [s EXCEPT !.heap = Deref(s, s.liveTodos.arr),
                   !.liveTodos.arr = [i \in 1..Len(s.liveTodos.arr) |-> i]]
    ELSE [s EXCEPT !.heap = <<>>]

Becomes(s0) ==
    LET s == Collected(s0)
    IN /\ heap' = s.heap
       /\ liveTodos' = s.liveTodos
       /\ store' = s.store
       /\ rows' = s.rows
       /\ rendered' = s.rendered
       /\ queue' = s.queue
       /\ log' = s.log
       /\ lastCount' = s.lastCount

\* The page as loaded: TodoStorage.initialize and connectedCallback over the
\* given localStorage item, with an empty list.
Loaded(st) ==
    StorageConnected([heap |-> <<>>, liveTodos |-> [defined |-> FALSE, arr |-> <<>>],
                      store |-> st, rows |-> <<>>, rendered |-> FALSE,
                      queue |-> <<>>, log |-> <<>>, lastCount |-> <<>>])

\* No task is running and no reaction is pending.
Idle == queue = <<>> /\ log = <<>>

NoneEditing == \A i \in 1..Len(rows) : ~rows[i].editing

Ids == 0..MaxClock

\* Partial records a caller can pass to updateTodo.
Updates ==
    { [id |-> i] : i \in Ids }
    \cup { [id |-> i, completed |-> c] : i \in Ids, c \in BOOLEAN }
    \cup { [id |-> i, title |-> ti] : i \in Ids, ti \in EditSamples }

\* Query objects a caller can pass to find, besides the empty one.
Queries ==
    { [completed |-> c] : c \in BOOLEAN }
    \cup { [id |-> i] : i \in 1..MaxClock }
    \cup { [title |-> <<"a">>] }
    \cup { [id |-> 1, completed |-> c] : c \in BOOLEAN }

Init ==
    /\ now = 1
    /\ LET s == Loaded([has |-> FALSE, text |-> <<>>])
       IN /\ heap = s.heap
          /\ liveTodos = s.liveTodos
          /\ store = s.store
          /\ rows = s.rows
          /\ rendered = s.rendered
          /\ queue = s.queue
          /\ log = s.log
          /\ lastCount = s.lastCount

(* ------------------------------- actions ------------------------------- *)

\* Time passes between tasks.
Tick ==
    /\ Idle /\ NoneEditing
    /\ now < MaxClock
    /\ now' = now + 1
    /\ UNCHANGED <<heap, liveTodos, store, rows, rendered, queue, log, lastCount>>

\* The page is loaded again over the same localStorage.
Reload ==
    /\ Idle /\ NoneEditing
    /\ Becomes(Loaded(store))
    /\ UNCHANGED now

\* The <todo-storage> element is taken out of the document and inserted
\* again: connectedCallback runs once more, over the same adapter.
Reconnect ==
    /\ Idle /\ NoneEditing
    /\ Becomes(StorageConnected(Task))
    /\ UNCHANGED now

\* TodoHeader: the submit listener dispatches "add-todo" with the input's value.
\* The numbers of records and of rows are capped at MaxTodos.
HeaderSubmit(title) ==
    /\ Idle /\ NoneEditing
    /\ Len(Collection(State)) < MaxTodos /\ Len(rows) < MaxTodos
    /\ Becomes(Intent(Task, "add-todo", [title |-> title], now))
    /\ UNCHANGED now

\* TodoItem: the click listener of the ".toggle" checkbox, after the checkbox
\* has changed its own state.
RowToggle(i) ==
    /\ Idle /\ NoneEditing
    /\ LET s == [Task EXCEPT !.rows[i].checked = ~rows[i].checked]
       IN Becomes(Intent(s, "update-todo",
                         [id |-> rows[i].id, completed |-> ~rows[i].checked], now))
    /\ UNCHANGED now

\* TodoItem: the click listener of the ".destroy" button.
RowDestroy(i) ==
    /\ Idle /\ NoneEditing
    /\ Becomes(Intent(Task, "remove-todo", [id |-> rows[i].id], now))
    /\ UNCHANGED now

\* TodoItem: the dblclick listener of the label.
RowDblClick(i) ==
    /\ Idle /\ NoneEditing
    /\ Becomes([Task EXCEPT !.rows[i].editing = TRUE])
    /\ UNCHANGED now

\* The user types in the text field of the row being edited.
RowType(i, text) ==
    /\ Idle
    /\ rows[i].editing
    /\ rows[i].input # text
    /\ Becomes([Task EXCEPT !.rows[i].input = text])
    /\ UNCHANGED now

\* TodoItem._update: dispatchUpdate, then this.editing = false.
RowUpdate(s, i) ==
    LET s1 == Intent(s, "update-todo", [id |-> s.rows[i].id, title |-> s.rows[i].input], now)
    IN [s1 EXCEPT !.rows[i].editing = FALSE]

\* The DOM event a listener of row i is called for, for the trace.
Ui(on, i) ==
    [t |-> "ui", on |-> on, row |-> i, id |-> rows[i].id, input |-> rows[i].input,
     title |-> rows[i].title, editing |-> rows[i].editing, pre |-> Snap(State)]

\* TodoItem: the submit listener of the row's form.
RowSubmit(i) ==
    /\ Idle
    /\ rows[i].editing
    /\ Becomes(RowUpdate(Emit(Task, Ui("submit", i)), i))
    /\ UNCHANGED now

\* A variant of the blur listener without the test of this.editing.
RowBlurUnguarded(i) ==
    /\ Idle
    /\ Becomes(RowUpdate(Emit(Task, Ui("blur", i)), i))
    /\ UNCHANGED now

\* TodoItem: the blur listener of the text field: this.editing && this._update()
RowBlur(i) ==
    /\ Idle
    /\ Becomes(IF rows[i].editing THEN RowUpdate(Emit(Task, Ui("blur", i)), i)
               ELSE Emit(Task, Ui("blur", i)))
    /\ UNCHANGED now

\* A variant of revert that leaves the text field as typed.
RowEscapeKeepInput(i) ==
    /\ Idle
    /\ rows[i].editing
    /\ Becomes([Emit(Task, Ui("escape", i)) EXCEPT !.rows[i].editing = FALSE])
    /\ UNCHANGED now

\* TodoItem.revert, on the Escape key.
RowEscape(i) ==
    /\ Idle
    /\ rows[i].editing
    /\ Becomes([Emit(Task, Ui("escape", i)) EXCEPT !.rows[i].input = rows[i].title,
                                                    !.rows[i].editing = FALSE])
    /\ UNCHANGED now

\* TodoList.toggleAll: the click listener of ".toggle-all".
ToggleAllClick(checked) ==
    /\ Idle /\ NoneEditing
    /\ Becomes(Intent(Task, "toggle-all", [completed |-> checked], now))
    /\ UNCHANGED now

\* TodoFooter: the click listener of the "Clear completed" button.
ClearCompletedClick ==
    /\ Idle /\ NoneEditing
    /\ Becomes(Intent(Task, "clear-completed", <<>>, now))
    /\ UNCHANGED now

\* Calls of the adapter's methods from outside the views.
ApiAddTodo(title) ==
    /\ Idle /\ NoneEditing
    /\ Len(Collection(State)) < MaxTodos /\ Len(rows) < MaxTodos
    /\ Becomes(AddTodo(Task, title, now))
    /\ UNCHANGED now

ApiUpdateTodo(update) ==
    /\ Idle /\ NoneEditing
    /\ Becomes(UpdateTodo(Task, update))
    /\ UNCHANGED now

ApiRemoveTodo(id) ==
    /\ Idle /\ NoneEditing
    /\ Becomes(RemoveTodo(Task, id))
    /\ UNCHANGED now

ApiCount ==
    /\ Idle /\ NoneEditing
    /\ Becomes(Count(Task, "caller"))
    /\ UNCHANGED now

\* find( query ); find() and find( {} ) are the same call after query || {}.
ApiFind(query) ==
    /\ Idle /\ NoneEditing
    /\ Becomes(Find(Task, query).s)
    /\ UNCHANGED now

\* The reactions, run in FIFO order once the current task has returned.
Dequeued == [State EXCEPT !.queue = Tail(@)]

\* find().then( todos => this.dispatch( 'storage-connected', todos ) )
RunConnected ==
    /\ queue # <<>> /\ Head(queue).k = "connected"
    /\ Becomes(Dispatch(Dequeued, "storage-connected", Deref(State, Head(queue).refs)))
    /\ UNCHANGED now

\* The callback of count(): the scan, then resolve( ... ), which queues the
\* reaction of count()'s own promise.
RunCount ==
    /\ queue # <<>> /\ Head(queue).k = "count"
    /\ LET detail == CountDetail(Deref(State, Head(queue).refs))
       IN Becomes(Enqueue(Emit(Dequeued, [t |-> "resolve", op |-> "count",
                                          detail |-> detail]),
                          [k |-> "counted", then |-> Head(queue).then,
                           detail |-> detail]))
    /\ UNCHANGED now

\* detail => this.dispatch( 'count-updated', detail ), or the caller's reaction.
RunCounted ==
    /\ queue # <<>> /\ Head(queue).k = "counted"
    /\ Becomes(IF Head(queue).then = "dispatch"
               THEN Dispatch(Dequeued, "count-updated", Head(queue).detail)
               ELSE Emit(Dequeued, [t |-> "result", op |-> "count",
                                    detail |-> Head(queue).detail]))
    /\ UNCHANGED now

RunToggleAll ==
    /\ queue # <<>> /\ Head(queue).k = "toggleAll"
    /\ Becomes(ToggleAllFrom(Dequeued, Head(queue).refs, 1, Head(queue).completed))
    /\ UNCHANGED now

RunClearCompleted ==
    /\ queue # <<>> /\ Head(queue).k = "clearCompleted"
    /\ Becomes(ClearCompletedFrom(Dequeued, Head(queue).refs, 1))
    /\ UNCHANGED now

\* The task and all its reactions are over: the event loop is idle again and
\* the trace of the task is dropped.
Settle ==
    /\ queue = <<>> /\ log # <<>>
    /\ log' = <<>>
    /\ UNCHANGED <<heap, liveTodos, store, now, rows, rendered, queue, lastCount>>

ViewNext ==
    \/ \E ti \in TitleSamples : HeaderSubmit(ti)
    \/ \E i \in 1..Len(rows) : RowToggle(i)
    \/ \E i \in 1..Len(rows) : RowDestroy(i)
    \/ \E i \in 1..Len(rows) : RowDblClick(i)
    \/ \E i \in 1..Len(rows), ti \in EditSamples : RowType(i, ti)
    \/ \E i \in 1..Len(rows) : RowSubmit(i)
    \/ \E i \in 1..Len(rows) : RowBlur(i)
    \/ \E i \in 1..Len(rows) : RowEscape(i)
    \/ \E c \in BOOLEAN : ToggleAllClick(c)
    \/ ClearCompletedClick

ApiNext ==
    \/ \E ti \in TitleSamples : ApiAddTodo(ti)
    \/ \E u \in Updates : ApiUpdateTodo(u)
    \/ \E i \in Ids : ApiRemoveTodo(i)
    \/ ApiCount
    \/ ApiFind(<<>>)
    \/ \E q \in Queries : ApiFind(q)

MicroNext ==
    \/ RunConnected
    \/ RunCount
    \/ RunCounted
    \/ RunToggleAll
    \/ RunClearCompleted
    \/ Settle

Next == Tick \/ Reload \/ Reconnect \/ ViewNext \/ ApiNext \/ MicroNext

Spec == Init /\ [][Next]_vars

\* The program driven through its views only: the user's events, page loads
\* and the reactions.
ViewOnlyNext == Tick \/ Reload \/ ViewNext \/ MicroNext

ViewSpec == Init /\ [][ViewOnlyNext]_vars

\* The reaction at the head of the queue is one of the two loops.
LoopPending == queue # <<>> /\ Head(queue).k \in {"toggleAll", "clearCompleted"}

\* The event loop runs the pending reactions before it takes the next task:
\* weak fairness of every reaction. For the two loops, which are enabled
\* exactly when LoopPending holds, the condition is written out.
FairSpec ==
    /\ Spec
    /\ WF_vars(RunConnected) /\ WF_vars(RunCount) /\ WF_vars(RunCounted)
    /\ WF_vars(Settle)
    /\ ([]<>(~LoopPending) \/ []<><<RunToggleAll \/ RunClearCompleted>>_vars)

(* ------------------------- reading the trace --------------------------- *)

\* The collection the adapter held, by value, in a snapshot of the trace.
SnapCollection(sn) == IF sn.defined THEN sn.live ELSE JSONParse(StoredText(sn.store))

\* The collection persisted in the store of a snapshot.
SnapPersisted(sn) == JSONParse(StoredText(sn.store))

\* The positions of the calls of an adapter method in the trace.
CallsOf(op) == { i \in 1..Len(log) : log[i].t = "call" /\ log[i].op = op }

\* The position at which the call at position i returned.
ReturnOf(i) ==
    CHOOSE j \in (i + 1)..Len(log) :
        log[j].t = "return" /\ \A m \in (i + 1)..(j - 1) : log[m].t # "return"

HasId(todos, id) == \E p \in 1..Len(todos) : todos[p].id = id

IsEvent(e, names) == e.t = "event" /\ e.name \in names

(* ------------------------------- claims -------------------------------- *)

\* C1: no two records of the collection have the same id, and every addTodo
\* with a valid title returns a record whose id differs from the id of every
\* record that was already in the collection.
C1_UniqueIds ==
    /\ \A i, j \in 1..Len(Collection(State)) :
          i # j => Collection(State)[i].id # Collection(State)[j].id
    /\ \A i \in CallsOf("addTodo") :
          log[ReturnOf(i)].res = "resolved"
          => ~HasId(SnapCollection(log[i].pre), log[ReturnOf(i)].val.id)

\* C2: no record of the persisted collection has a title that is empty or
\* whitespace-only.
C2_NoBlankTitlePersisted ==
    \A i \in 1..Len(Persisted(State)) : Len(Trim(Persisted(State)[i].title)) > 0

\* C3: once a task and all its reactions have run, the list holds exactly one
\* row per persisted record, in the same order, with the record's id, title
\* and completed flag.
C3_ViewMirrorsStore ==
    queue = <<>> =>
        /\ Len(rows) = Len(Persisted(State))
        /\ \A i \in 1..Len(rows) :
              /\ rows[i].id = Persisted(State)[i].id
              /\ rows[i].title = Persisted(State)[i].title
              /\ rows[i].completed = Persisted(State)[i].completed

\* C4: addTodo with a title that is not blank resolves with a record of that
\* title and completed = false, and the collection (in memory and persisted)
\* becomes the previous collection followed by that record.
C4_AddTodoAppends ==
    \A i \in CallsOf("addTodo") :
        Len(Trim(log[i].arg)) > 0 =>
            LET ret == log[ReturnOf(i)]
                before == SnapCollection(log[i].pre)
            IN /\ ret.res = "resolved"
               /\ ret.val.title = log[i].arg
               /\ ret.val.completed = FALSE
               /\ SnapCollection(ret.post) = Append(before, ret.val)
               /\ SnapPersisted(ret.post) = Append(before, ret.val)

C4_Witness ==
    \E i \in CallsOf("addTodo") :
        /\ log[i].arg = <<" ", "b">>
        /\ Len(SnapCollection(log[i].pre)) >= 1
        /\ log[ReturnOf(i)].res = "resolved"

\* C5: addTodo with an empty or whitespace-only title fails, leaves the live
\* cache and the stored blob as they were, writes nothing and dispatches (and
\* schedules) no todo-added or count-updated event.
C5_AddTodoBlankFails ==
    \A i \in CallsOf("addTodo") :
        Len(Trim(log[i].arg)) = 0 =>
            /\ log[ReturnOf(i)].res = "throw"
            /\ log[ReturnOf(i)].post = log[i].pre
            /\ \A m \in (i + 1)..Len(log) :
                  /\ log[m].t \notin {"setItem", "countCall"}
                  /\ ~IsEvent(log[m], {"todo-added", "count-updated"})
            /\ queue = <<>>

C5_Witness ==
    \E i \in CallsOf("addTodo") :
        /\ log[i].arg = <<" ">>
        /\ Len(SnapCollection(log[i].pre)) >= 1
        /\ log[ReturnOf(i)].res = "throw"

\* C6: updateTodo with an id the collection has resolves, changes exactly the
\* fields named in the partial record on one record with that id (the first),
\* and leaves every other record, the length and the order as they were.
C6_UpdateTodoMergesOne ==
    \A i \in CallsOf("updateTodo") :
        LET u == log[i].arg
            before == SnapCollection(log[i].pre)
            ret == log[ReturnOf(i)]
            after == SnapCollection(ret.post)
        IN HasId(before, u.id) =>
            /\ ret.res = "resolved"
            /\ Len(after) = Len(before)
            /\ \E p \in 1..Len(before) :
                  /\ before[p].id = u.id
                  /\ \A q \in 1..Len(before) : q # p => after[q] = before[q]
                  /\ \A k \in {"title", "id", "completed"} :
                        after[p][k] = IF k \in DOMAIN u THEN u[k] ELSE before[p][k]
            /\ SnapPersisted(ret.post) = after

C6_Witness ==
    \E i \in CallsOf("updateTodo") :
        LET before == SnapCollection(log[i].pre)
            after == SnapCollection(log[ReturnOf(i)].post)
        IN /\ log[i].arg = [id |-> 1, completed |-> TRUE]
           /\ Len(before) = 2
           /\ before[1] = [title |-> <<" ", "b">>, id |-> 1, completed |-> FALSE]
           /\ before[2].id = 2
           /\ after[1] = [title |-> <<" ", "b">>, id |-> 1, completed |-> TRUE]
           /\ after[2] = before[2]

\* C7: updateTodo with an id no record has is rejected; the live cache and the
\* stored blob are as before, nothing is written and no event is dispatched or
\* scheduled by the call.
C7_UpdateTodoAbsentRejects ==
    \A i \in CallsOf("updateTodo") :
        ~HasId(SnapCollection(log[i].pre), log[i].arg.id) =>
            /\ log[ReturnOf(i)].res = "rejected"
            /\ log[ReturnOf(i)].post = log[i].pre
            /\ \A m \in (i + 1)..(ReturnOf(i) - 1) :
                  log[m].t \notin {"setItem", "countCall", "event"}

C7_Witness ==
    \E i \in CallsOf("updateTodo") :
        /\ ~HasId(SnapCollection(log[i].pre), log[i].arg.id)
        /\ Len(SnapCollection(log[i].pre)) >= 1
        /\ log[ReturnOf(i)].res = "rejected"

C9_RemovePresentRemovesOne ==
    \A i \in CallsOf("removeTodo") :
        LET before == SnapCollection(log[i].pre)
            after == SnapCollection(log[ReturnOf(i)].post)
        IN HasId(before, log[i].arg) =>
            /\ Len(after) = Len(before) - 1
            /\ \E p \in 1..Len(before) :
                  /\ before[p].id = log[i].arg
                  /\ after = SubSeq(before, 1, p - 1) \o SubSeq(before, p + 1, Len(before))

\* The positions of the calls of count() and of their resolutions, which
\* happen in the same order.
CountCalls == { i \in 1..Len(log) : log[i].t = "countCall" }

CountResolutions == { i \in 1..Len(log) : log[i].t = "resolve" }

Rank(S, i) == Cardinality({ j \in S : j <= i })

CallOfResolution(r) ==
    CHOOSE c \in CountCalls : Rank(CountCalls, c) = Rank(CountResolutions, r)

Finds == { i \in 1..Len(log) : log[i].t = "find" }

\* C11: find(query) resolves with the records of the collection whose value
\* equals the query's value for every field the query names (all of them for
\* an empty query), in the order of the collection, and leaves the live cache
\* and the stored blob as they were.
C11_FindFilters ==
    \A i \in Finds :
        LET q == log[i].query
            before == SnapCollection(log[i].pre)
        IN /\ log[i].val = SelectSeq(before, LAMBDA todo : \A k \in DOMAIN q : todo[k] = q[k])
           /\ (DOMAIN q = {} => log[i].val = before)
           /\ log[i].post = log[i].pre

\* A query on the completed flag that drops the first of two records and
\* keeps the second.
C11_Witness ==
    \E i \in Finds :
        /\ log[i].query = [completed |-> TRUE]
        /\ Len(SnapCollection(log[i].pre)) = 2
        /\ ~SnapCollection(log[i].pre)[1].completed
        /\ log[i].val = <<SnapCollection(log[i].pre)[2]>>

\* Numbers of one, two and three digits survive the conversion to digits and
\* back.
NumbersRoundTrip == \A n \in 0..MaxId : StringToNumber(NumberToString(n)) = n

Intents(names) == { m \in 1..Len(log) : IsEvent(log[m], names) }

\* The task of the trace is a listener of a row, called for one of these events.
RowTask(ons) == log # <<>> /\ log[1].t = "ui" /\ log[1].on \in ons

\* C13: a submit or a blur on a row being edited dispatches exactly one
\* update-todo intent, with the row's id and the text of its field, and leaves
\* the row in viewing state; a blur on a row in viewing state (such as the
\* blur that follows a submit) dispatches no update-todo intent.
C13_CommitDispatchesOnce ==
    RowTask({"submit", "blur"}) =>
        IF log[1].editing
        THEN /\ Cardinality(Intents({"update-todo"})) = 1
             /\ \A m \in Intents({"update-todo"}) :
                   log[m].detail = [id |-> log[1].id, title |-> log[1].input]
             /\ log[1].row \in 1..Len(rows)
             /\ ~rows[log[1].row].editing
        ELSE /\ Intents({"update-todo"}) = {}
             /\ CallsOf("updateTodo") = {}
             /\ ~rows[log[1].row].editing

\* A blur commits the text "a" typed over the title " b" of the second row.
C13_Witness ==
    /\ RowTask({"blur"})
    /\ log[1].editing
    /\ log[1].row = 2
    /\ log[1].title = <<" ", "b">> /\ log[1].input = <<"a">>
    /\ \E m \in Intents({"update-todo"}) : log[m].detail.title = <<"a">>
    /\ rows[2].title = <<"a">>

\* C14: Escape on a row being edited leaves the row in viewing state with the
\* row's title in its text field, dispatches no update-todo intent, calls no
\* adapter method and leaves the live cache and the stored blob as they were;
\* nor does a later blur of that row, then in viewing state.
C14_CancelDiscards ==
    /\ RowTask({"escape"}) =>
          /\ log[1].editing
          /\ ~rows[log[1].row].editing
          /\ rows[log[1].row].input = log[1].title
          /\ rows[log[1].row].title = log[1].title
          /\ Intents({"update-todo"}) = {}
          /\ Len(log) = 1
          /\ Snap(State) = log[1].pre
    /\ (RowTask({"blur"}) /\ ~log[1].editing) =>
          /\ Len(log) = 1
          /\ rows[log[1].row].input = log[1].input
          /\ Snap(State) = log[1].pre

\* Escape after "a" was typed over the title " b" of a persisted record.
C14_Witness ==
    /\ RowTask({"escape"})
    /\ log[1].input = <<"a">> /\ log[1].title = <<" ", "b">>
    /\ rows[log[1].row].input = <<" ", "b">>
    /\ \E p \in 1..Len(Persisted(State)) :
          Persisted(State)[p].id = log[1].id /\ Persisted(State)[p].title = <<" ", "b">>

\* The calls of the adapter's mutating methods that resolved.
Mutations ==
    { i \in CallsOf("addTodo") \cup CallsOf("updateTodo") \cup CallsOf("removeTodo") :
        log[ReturnOf(i)].res = "resolved" }

\* The blob of a snapshot holds the whole live cache of the snapshot.
WrittenThrough(sn) == sn.store.has /\ sn.defined /\ SnapPersisted(sn) = sn.live

\* C15: the stored blob deserializes to the adapter's collection between any
\* two steps, whenever an event is dispatched, and when a mutating method
\* returns; every mutation that resolves writes the store, and what it writes
\* is the whole collection.
C15_WriteThrough ==
    /\ Persisted(State) = Collection(State)
    /\ \A m \in 1..Len(log) :
          /\ log[m].t = "event" => SnapPersisted(log[m].snap) = SnapCollection(log[m].snap)
          /\ log[m].t = "setItem" => WrittenThrough(log[m].snap)
    /\ \A i \in Mutations :
          /\ WrittenThrough(log[ReturnOf(i)].post)
          /\ \E m \in (i + 1)..(ReturnOf(i) - 1) :
                /\ log[m].t = "setItem"
                /\ log[m].snap = log[ReturnOf(i)].post

\* toggle-all over a live collection of two records: the second item is
\* assigned in the live cache before updateTodo writes it, and todo-updated is
\* dispatched after the write.
C15_Witness ==
    \E a, e \in 1..Len(log) :
        /\ a < e
        /\ log[a].t = "assign" /\ log[a].live
        /\ \E e0 \in 1..(a - 1) : IsEvent(log[e0], {"todo-updated"})
        /\ IsEvent(log[e], {"todo-updated"})
        /\ Len(log[e].snap.live) = 2
        /\ log[e].snap.live[1].id # log[e].snap.live[2].id
        /\ log[e].snap.live[1].completed /\ log[e].snap.live[2].completed

\* C16: the adapter's collection changes only inside addTodo, updateTodo and
\* removeTodo: the assignment toggleAll makes to an item find resolved with
\* leaves every record of the live cache as it was.
C16_OnlyAdapterMutates ==
    \A m \in 1..Len(log) :
        log[m].t = "assign" => SnapCollection(log[m].post) = SnapCollection(log[m].pre)

\* The confirmation event of each mutating method.
Confirmation(op) ==
    CASE op = "addTodo" -> "todo-added"
      [] op = "updateTodo" -> "todo-updated"
      [] op = "removeTodo" -> "todo-removed"

\* The positions, between a call and its return, of the entries e satisfies.
Within(i, Test(_)) == { m \in (i + 1)..(ReturnOf(i) - 1) : Test(log[m]) }

\* The count-updated events dispatched for the count() the mutation at i
\* called: reactions run in the order in which count() was called.
CountUpdatedOf(i) ==
    LET events == Intents({"count-updated"})
    IN { u \in events :
           \E c \in Within(i, LAMBDA e : e.t = "countCall") :
               Rank(events, u) = Rank(CountCalls, c) }

C17_Order ==
    \A i \in Mutations :
        LET writes == Within(i, LAMBDA e : e.t = "setItem")
            confirms == Within(i, LAMBDA e : IsEvent(e, {Confirmation(log[i].op)}))
            counts == Within(i, LAMBDA e : e.t = "countCall")
        IN /\ Cardinality(writes) = 1
           /\ Cardinality(confirms) = 1
           /\ Cardinality(counts) = 1
           /\ \A w \in writes, e \in confirms, c \in counts : w < e /\ e < c
           /\ \A u \in CountUpdatedOf(i) : u > ReturnOf(i)
           /\ queue = <<>> => Cardinality(CountUpdatedOf(i)) = 1

C17_Counted == Mutations # {} /\ \A i \in Mutations : CountUpdatedOf(i) # {}

\* C17: every addTodo, updateTodo and removeTodo that resolves writes the
\* store, then dispatches its confirmation event, then calls count(), whose
\* count-updated event is dispatched after the method has returned; and every
\* such mutation is eventually followed by its count-updated event.
C17_EffectOrder == [](C17_Order) /\ ((Mutations # {}) ~> C17_Counted)

\* The two removals of a clear-completed over two completed records, each
\* followed by its own count-updated event.
C17_Witness ==
    /\ Cardinality(Mutations \cap CallsOf("removeTodo")) = 2
    /\ \A i \in Mutations : Cardinality(CountUpdatedOf(i)) = 1
    /\ \E i, j \in Mutations : CountUpdatedOf(i) # CountUpdatedOf(j)

\* C18: once every pending reaction has run, the detail of the last
\* count-updated event dispatched gives the numbers of records, of active
\* records and of completed records of the persisted collection.
C18_LastCountIsCurrent ==
    queue = <<>> =>
        LET todos == Persisted(State)
        IN lastCount =
             <<[total |-> Len(todos),
                completed |-> Cardinality({ p \in 1..Len(todos) : todos[p].completed }),
                active |-> Cardinality({ p \in 1..Len(todos) : ~todos[p].completed })]>>

\* A toggle-all that updated two records, after its two count-updated events.
C18_Witness ==
    /\ queue = <<>>
    /\ Intents({"toggle-all"}) # {}
    /\ Cardinality(Mutations) = 2
    /\ Cardinality(Intents({"count-updated"})) = 2
    /\ Len(Persisted(State)) = 2
    /\ Persisted(State)[1].id # Persisted(State)[2].id
    /\ lastCount = <<[total |-> 2, completed |-> 2, active |-> 0]>>

\* The task of the trace is the given bulk intent, and its loop has run.
BulkDone(name, job) ==
    /\ log # <<>>
    /\ IsEvent(log[1], {name})
    /\ \A q \in 1..Len(queue) : queue[q].k # job

\* C19: a toggle-all intent with {completed: c} makes exactly one updateTodo
\* call for each record whose completed flag differs from c and none for the
\* others; afterwards every record has completed = c, and the ids, the titles,
\* the number and the order of the records are as before.
C19_ToggleAllSetsAll ==
    BulkDone("toggle-all", "toggleAll") =>
        LET c == log[1].detail.completed
            before == SnapCollection(log[1].snap)
            after == Collection(State)
            calls == CallsOf("updateTodo")
        IN /\ \A p \in 1..Len(before) :
                 Cardinality({ i \in calls : log[i].arg.id = before[p].id })
                    = IF before[p].completed # c THEN 1 ELSE 0
           /\ Cardinality(calls) =
                 Cardinality({ p \in 1..Len(before) : before[p].completed # c })
           /\ Len(after) = Len(before)
           /\ \A p \in 1..Len(after) :
                 /\ after[p].completed = c
                 /\ after[p].id = before[p].id
                 /\ after[p].title = before[p].title

\* C20: a clear-completed intent makes exactly one removeTodo call for each
\* record that is completed when the intent is handled; afterwards the
\* collection is the records that were active, unchanged and in their order.
C20_ClearCompletedKeepsActive ==
    BulkDone("clear-completed", "clearCompleted") =>
        LET before == SnapCollection(log[1].snap)
            after == Collection(State)
            calls == CallsOf("removeTodo")
        IN /\ \A p \in 1..Len(before) :
                 before[p].completed =>
                    Cardinality({ i \in calls : log[i].arg = before[p].id }) = 1
           /\ Cardinality(calls) =
                 Cardinality({ p \in 1..Len(before) : before[p].completed })
           /\ \A p \in 1..Len(after) : ~after[p].completed
           /\ after = SelectSeq(before, LAMBDA todo : ~todo.completed)

\* The intents of a single record and the adapter method the controller calls
\* for each.
SingleIntents == {"add-todo", "update-todo", "remove-todo"}

MethodOf(name) ==
    CASE name = "add-todo" -> "addTodo"
      [] name = "update-todo" -> "updateTodo"
      [] name = "remove-todo" -> "removeTodo"

ArgOf(name, detail) ==
    CASE name = "add-todo" -> detail.title
      [] name = "update-todo" -> detail
      [] name = "remove-todo" -> detail.id

Confirmations == {"todo-added", "todo-updated", "todo-removed"}

\* The task of the trace was started by a view: a listener of a row, or an
\* intent of the header, of a row's checkbox or button, of the list or of the
\* footer.
ViewTask ==
    /\ log # <<>>
    /\ \/ log[1].t = "ui"
       \/ IsEvent(log[1], SingleIntents \cup {"toggle-all", "clear-completed"})

\* One row with the given id was appended, removed or given new attributes,
\* and every other row is as it was.
OneRowChanged(v) ==
    CASE v.op = "addTodo" ->
            /\ Len(v.post) = Len(v.pre) + 1
            /\ SubSeq(v.post, 1, Len(v.pre)) = v.pre
            /\ v.post[Len(v.post)].id = v.id
      [] v.op = "removeTodo" ->
            \E p \in 1..Len(v.pre) :
                /\ v.pre[p].id = v.id
                /\ v.post = SubSeq(v.pre, 1, p - 1) \o SubSeq(v.pre, p + 1, Len(v.pre))
      [] v.op = "updateTodo" ->
            /\ Len(v.post) = Len(v.pre)
            /\ \E p \in 1..Len(v.pre) :
                  /\ v.pre[p].id = v.id /\ v.post[p].id = v.id
                  /\ \A q \in 1..Len(v.pre) : q # p => v.post[q] = v.pre[q]

\* C21: in a task started by a view, every add-todo, update-todo and
\* remove-todo intent is followed by exactly one call of the matching adapter
\* method with the intent's payload; every confirmation event is followed by
\* exactly one change of the list, on one row with the confirmed id, and the
\* list changes at no other moment; a call that fails changes no row.
C21_OneCallOneViewMutation ==
    ViewTask =>
        /\ \A m \in Intents(SingleIntents) :
              /\ m < Len(log)
              /\ log[m + 1].t = "call"
              /\ log[m + 1].op = MethodOf(log[m].name)
              /\ log[m + 1].arg = ArgOf(log[m].name, log[m].detail)
              /\ log[ReturnOf(m + 1)].res # "resolved" =>
                    \A v \in (m + 1)..Len(log) : log[v].t \notin {"view", "event"}
        /\ Intents(SingleIntents) # {} =>
              Cardinality({ i \in 1..Len(log) : log[i].t = "call" }) = 1
        /\ \A e \in Intents(Confirmations) :
              /\ e < Len(log)
              /\ log[e + 1].t = "view"
              /\ log[e].name = Confirmation(log[e + 1].op)
              /\ log[e + 1].id = log[e].detail.id
              /\ OneRowChanged(log[e + 1])
        /\ \A v \in 1..Len(log) :
              log[v].t = "view" => v > 1 /\ IsEvent(log[v - 1], Confirmations)

\* The checkbox of the second of two rows is clicked: one updateTodo call, one
\* todo-updated event, one change, of the second row.
C21_Witness ==
    /\ ViewTask
    /\ Intents({"update-todo"}) = {1}
    /\ \E e \in Intents({"todo-updated"}) :
          /\ Len(log[e + 1].pre) = 2
          /\ log[e + 1].pre[1].id # log[e + 1].pre[2].id
          /\ log[e + 1].pre[2].id = log[e].detail.id
          /\ log[e + 1].post[2].completed /\ ~log[e + 1].pre[2].completed
          /\ log[e + 1].post[1] = log[e + 1].pre[1]

\* The task of the trace is a connectedCallback of the adapter.
ConnectTask == log # <<>> /\ log[1].t = "connected"

\* C22: a connectedCallback of the adapter dispatches one storage-connected
\* event, whose detail is the persisted collection in order, and after it one
\* count-updated event with the counts of that collection; the first
\* storage-connected event of a page renders one row per record, and a later
\* one changes no row.
C22_ConnectedRendersOnce ==
    ConnectTask =>
        LET todos == SnapPersisted(log[1].pre)
            connected == Intents({"storage-connected"})
            counted == Intents({"count-updated"})
            views == { v \in 1..Len(log) : log[v].t = "view" }
        IN /\ Cardinality(connected) <= 1 /\ Cardinality(counted) <= 1
           /\ \A e \in connected : log[e].detail = todos
           /\ \A u \in counted :
                 /\ \E e \in connected : e < u
                 /\ log[u].detail.total = Len(todos)
                 /\ log[u].detail.completed =
                       Cardinality({ p \in 1..Len(todos) : todos[p].completed })
                 /\ log[u].detail.active =
                       Cardinality({ p \in 1..Len(todos) : ~todos[p].completed })
           /\ queue = <<>> => Cardinality(connected) = 1 /\ Cardinality(counted) = 1
           /\ connected # {} => rendered
           /\ IF log[1].rendered
              THEN views = {} /\ rows = log[1].rows
              ELSE IF connected = {}
              THEN views = {} /\ rows = <<>>
              ELSE /\ Cardinality(views) = Len(todos)
                   /\ Len(rows) = Len(todos)
                   /\ \A p \in 1..Len(todos) :
                         /\ rows[p].id = todos[p].id
                         /\ rows[p].title = todos[p].title
                         /\ rows[p].completed = todos[p].completed

\* A page loaded over a blob of two records, the second completed, after its
\* storage-connected and count-updated events.
C22_Witness ==
    /\ ConnectTask
    /\ ~log[1].rendered
    /\ queue = <<>>
    /\ Len(rows) = 2
    /\ rows[1].id # rows[2].id
    /\ ~rows[1].completed /\ rows[2].completed
    /\ \E u \in Intents({"count-updated"}) :
          log[u].detail = [total |-> 2, completed |-> 1, active |-> 1]

\* A second connectedCallback in a page that shows two rows.
C22_WitnessLater ==
    /\ ConnectTask
    /\ log[1].rendered
    /\ queue = <<>>
    /\ Len(rows) = 2
    /\ Intents({"storage-connected"}) # {}

\* C23: every count-updated event carries the numbers of records, of
\* completed records and of active records of the collection as it is when
\* the event is dispatched.
C23_CountAtDispatch ==
    \A u \in Intents({"count-updated"}) :
        LET todos == SnapCollection(log[u].snap)
        IN /\ log[u].detail.total = Len(todos)
           /\ log[u].detail.completed =
                 Cardinality({ p \in 1..Len(todos) : todos[p].completed })
           /\ log[u].detail.active =
                 Cardinality({ p \in 1..Len(todos) : ~todos[p].completed })

\* C24: driven through the views only, every update-todo intent and every
\* updateTodo call carries an id that a record of the collection has at that
\* moment, and no updateTodo call is rejected.
C24_ViewUpdatesFound ==
    /\ \A m \in Intents({"update-todo"}) :
          HasId(SnapCollection(log[m].snap), log[m].detail.id)
    /\ \A i \in CallsOf("updateTodo") :
          /\ HasId(SnapCollection(log[i].pre), log[i].arg.id)
          /\ log[ReturnOf(i)].res = "resolved"

====
